---- MODULE Spec2Model ----
(***************************************************************************)
(* Synthia AI assistant: the conversation orchestrator                     *)
(* (chat/services/orchestrator.py), the completion client                  *)
(* (chat/services/llm_factory.py, chat/services.py), the tools             *)
(* (chat/tools/*.py), the Telegram entry point (run_bot.py) and the        *)
(* message API (chat/views.py), for one conversation; the configuration    *)
(* tables of chat/models.py.                                               *)
(*                                                                         *)
(* A text is a TLA+ string; an f-string is a concatenation with \o.        *)
(* Python's None, where a text is expected, is the record kind "none".     *)
(***************************************************************************)
EXTENDS Integers, Sequences, FiniteSets, TLC

VARIABLES
    messages,      \* the Message rows of the conversation, oldest first
    pc,            \* position of the handler that serves the current inbound message
    channel,       \* "bot" (run_bot.py) or "api" (views.py): who serves the message
    message_text,  \* handle_message's parameter
    intent,        \* handle_message's local: the classifier's answer (characters)
    context,       \* _handle_tool_usage's / _get_normal_response's running message list
    response_msg,  \* _handle_tool_usage's local: the first chat completion's message
    requests,      \* history: the completion requests issued while serving the message
    responses,     \* history: what get_response returned to each chat request
    llm_failed,    \* history: a provider call raised inside get_response
    handled,       \* history: the tool calls the orchestrator has handled
    reply,         \* the text handle_message returned
    exception,     \* the exception that escaped the handler ("" when none)
    runStart,      \* history: Len(messages) when the handler started its LLM work
    turns,         \* inbound messages served so far
    ai_models,     \* the AIModel rows, by primary key
    system_prompts, \* the SystemPrompt rows, by primary key
    agent_modes,   \* the AgentMode rows, by primary key
    conversation,  \* the Conversation row: its ai_model and system_prompt overrides
    last_save,     \* history: the model of the last save, and whether it switched a row off
    handlers,      \* the bot process and the web server: where each is in its handler
    stored,        \* history: every Message row ever inserted, with the module that did it
    tools,         \* ToolRegistry.tools: the dict of the registry
    registry_calls, \* history: the calls made on the registry, with what each returned
    tool_input,    \* a task tool, the arguments of its execute, the exchanges it will see
    tool_output,   \* what that execute returned or raised
    core_messages, \* core.Conversation.messages
    core_calls,    \* history: the add_message calls made on the conversation
    core_history,  \* what the last view_history returned, and after how many calls
    updates,       \* history: the Telegram updates the bot has received
    bot_conversations, \* the topics of the Conversation rows the bot created
    bot_messages,  \* the Message rows written while the bot handled an update
    bot_effects,   \* what the bot did besides: chat actions, transcriptions, runs, replies
    cursor,        \* GetTasks.execute: the local cursor of the paging loop
    page_sent,     \* history: the cursor parameter of the last request sent
    page_prev,     \* history: the response before the last one
    page_answer,   \* the last response r
    page_count,    \* history: requests sent so far, counted up to MaxPages
    page_pc,       \* "fetching" inside the loop, "returned" after it
    savers         \* the save() calls in progress, one per process that saves

handlerVars == <<pc, channel, message_text, intent, context, response_msg,
                 requests, responses, llm_failed, handled, reply, exception, runStart>>

orchVars == <<messages, turns, handlerVars>>

configVars == <<ai_models, system_prompts, agent_modes, conversation, last_save>>

serverVars == <<handlers, stored>>

registryVars == <<tools, registry_calls>>

toolVars == <<tool_input, tool_output>>

coreVars == <<core_messages, core_calls, core_history>>

botVars == <<updates, bot_conversations, bot_messages, bot_effects>>

pageVars == <<cursor, page_sent, page_prev, page_answer, page_count, page_pc>>

saverVars == <<savers>>

\* what the handlers of inbound messages never write
fixedVars == <<configVars, serverVars, registryVars, toolVars, coreVars, botVars, pageVars, saverVars>>

vars == <<orchVars, configVars, serverVars, registryVars, toolVars, coreVars, botVars, pageVars, saverVars>>

----------------------------------------------------------------------------
(* Bounds of the model *)

MaxTurns == 2          \* inbound messages served in one behaviour
MaxLimit == 3          \* iteration limits N the agent-loop claims range over
MaxRows == 2           \* rows of one configuration table
MaxInbound == 3        \* inbound messages the bot and the web server take between them
MaxEdits == 1          \* requests that change or delete a stored message
MaxHistory == 12       \* rows a conversation holds before the message that is served
MaxCalls == 3          \* calls made on one ToolRegistry
MaxMessages == 3       \* add_message calls on one core.Conversation
MaxUpdates == 3        \* Telegram updates the bot receives
MaxPages == 3          \* page requests of one GetTasks.execute that are counted
MaxSavesEach == 2      \* calls of save() one process makes

----------------------------------------------------------------------------
(* Python values *)

None == [kind |-> "none", text |-> "None"]
Text(s) == [kind |-> "text", text |-> s]
Raise(e) == [kind |-> "raise", text |-> e]

\* str(v) as an f-string renders it
Format(v) == v.text

\* dict.get(key): key -> "is present" and "its value"
Has(d, k) == k \in DOMAIN d
EmptyArgs == [k \in {} |-> 0]

----------------------------------------------------------------------------
(* chat/tools/calculator.py *)

\* the operands the model draws from; every quotient of two of them is a
\* whole number or a half
Numbers == {0, 1, 2}

\* str(x / y) for y # 0: Python's true division gives a float
PyDivStr(x, y) ==
    IF x % y = 0 THEN ToString(x \div y) \o ".0"
                 ELSE ToString(x \div y) \o ".5"

DivZeroText == "ERROR: You can't divide by zero!"

\* x + y, x - y, x * y, x / y raise TypeError when an operand is None
BothNumbers(kwargs) == Has(kwargs, "x") /\ Has(kwargs, "y")

\* the Calculator without its test of y == 0: the division raises
CalculatorExecuteUnguarded(kwargs) ==
    LET operation == IF Has(kwargs, "operation") THEN kwargs["operation"] ELSE "None"
    IN  IF operation = "add" THEN
            IF BothNumbers(kwargs) THEN Text(ToString(kwargs["x"] + kwargs["y"]))
                                   ELSE Raise("TypeError")
        ELSE IF operation = "subtract" THEN
            IF BothNumbers(kwargs) THEN Text(ToString(kwargs["x"] - kwargs["y"]))
                                   ELSE Raise("TypeError")
        ELSE IF operation = "multiply" THEN
            IF BothNumbers(kwargs) THEN Text(ToString(kwargs["x"] * kwargs["y"]))
                                   ELSE Raise("TypeError")
        ELSE IF operation = "divide" THEN
            IF ~BothNumbers(kwargs) THEN Raise("TypeError")
            ELSE IF kwargs["y"] = 0 THEN Raise("ZeroDivisionError")
            ELSE Text(PyDivStr(kwargs["x"], kwargs["y"]))
        ELSE None

\* CalculatorTool.execute
CalculatorExecute(kwargs) ==
    LET operation == IF Has(kwargs, "operation") THEN kwargs["operation"] ELSE "None"
    IN  IF operation = "add" THEN
            IF BothNumbers(kwargs) THEN Text(ToString(kwargs["x"] + kwargs["y"]))
                                   ELSE Raise("TypeError")
        ELSE IF operation = "subtract" THEN
            IF BothNumbers(kwargs) THEN Text(ToString(kwargs["x"] - kwargs["y"]))
                                   ELSE Raise("TypeError")
        ELSE IF operation = "multiply" THEN
            IF BothNumbers(kwargs) THEN Text(ToString(kwargs["x"] * kwargs["y"]))
                                   ELSE Raise("TypeError")
        ELSE IF operation = "divide" THEN
            IF Has(kwargs, "y") /\ kwargs["y"] = 0 THEN Text(DivZeroText)
            ELSE IF BothNumbers(kwargs) THEN Text(PyDivStr(kwargs["x"], kwargs["y"]))
            ELSE Raise("TypeError")
        ELSE None      \* no branch taken: the function falls off its end

----------------------------------------------------------------------------
(* chat/tools/todoist.py: one HTTP exchange is a record                    *)
(*   [raised |-> requests raised (transport failure), status, body]        *)
(* and body names what the task API sent.                                  *)

TaskA == [id |-> "t1", content |-> "milk", due |-> "", priority |-> 1]
TaskB == [id |-> "t2", content |-> "rent", due |-> "2026-01-31", priority |-> 4]
\* an object that is no task: it has none of the keys the formatting reads
NoTask == [error |-> "denied"]

TransportFailure == [raised |-> TRUE, status |-> 0, body |-> "none"]
Http(status, body) == [raised |-> FALSE, status |-> status, body |-> body]

\* str(e) of the exceptions the tools catch
ConnErrText == "Connection refused"
JsonErrText == "Expecting value: line 1 column 1 (char 0)"

\* r.text
BodyText(body) ==
    CASE body = "task"      -> "{task}"
      [] body = "page_more" -> "{results, next_cursor}"
      [] body = "page_last" -> "{results}"
      [] body = "page_more_bad" -> "{results: [{error}], next_cursor}"
      [] body = "page_more2" -> "{results, next_cursor: cur2}"
      [] body = "page_blank" -> "{results, next_cursor: ''}"
      [] body = "page_null" -> "{results, next_cursor: null}"
      [] body = "error_obj" -> "{error}"
      [] body = "html"      -> "<html>Bad Gateway</html>"
      [] OTHER              -> ""

\* r.json(): ok is FALSE when the body is no JSON document (json() raises)
BodyJson(body) ==
    CASE body = "task"      -> [ok |-> TRUE, dict |-> TaskA]
      [] body = "page_more" -> [ok |-> TRUE, dict |-> [results |-> <<TaskA>>, next_cursor |-> "cur1"]]
      [] body = "page_last" -> [ok |-> TRUE, dict |-> [results |-> <<TaskB>>]]
      [] body = "page_more_bad" ->
             [ok |-> TRUE, dict |-> [results |-> <<NoTask>>, next_cursor |-> "cur1"]]
      [] body = "page_more2" -> [ok |-> TRUE, dict |-> [results |-> <<TaskB>>, next_cursor |-> "cur2"]]
      [] body = "page_blank" -> [ok |-> TRUE, dict |-> [results |-> <<TaskB>>, next_cursor |-> ""]]
      [] body = "page_null"  -> [ok |-> TRUE, dict |-> [results |-> <<TaskB>>, next_cursor |-> "None"]]
      [] body = "error_obj" -> [ok |-> TRUE, dict |-> [error |-> "denied"]]
      [] OTHER              -> [ok |-> FALSE, dict |-> EmptyArgs]

SystemError(text) == Text("System Error: " \o text)

\* CreateTask.execute: the whole exchange is inside the try
CreateTaskExecute(kwargs, http) ==
    LET r == http[1]
        js == BodyJson(r.body)
    IN  IF r.raised THEN SystemError(ConnErrText)
        ELSE IF r.status \in {200, 201} THEN
            IF ~js.ok THEN SystemError(JsonErrText)
            ELSE IF ~Has(js.dict, "id") THEN SystemError("'id'")
            ELSE IF ~Has(js.dict, "content") THEN SystemError("'content'")
            ELSE Text("Task created. ID: " \o js.dict["id"] \o ", Content: "
                      \o js.dict["content"] \o ", Priority: "
                      \o (IF Has(js.dict, "priority") THEN ToString(js.dict["priority"])
                                                      ELSE "Default"))
        ELSE Text("Error " \o ToString(r.status) \o ": " \o BodyText(r.body))

FormatTask(task) ==
    "[ID:" \o task["id"] \o "] " \o task["content"] \o ", Due: "
    \o (IF task["due"] # "" THEN task["due"] ELSE "no deadline")
    \o ", Priority:" \o ToString(task["priority"])

RECURSIVE JoinLines(_)
JoinLines(lines) ==
    IF lines = <<>> THEN ""
    ELSE IF Len(lines) = 1 THEN lines[1]
    ELSE lines[1] \o "\n" \o JoinLines(Tail(lines))

\* response_data.get('next_cursor'): None when the key is missing
NextCursor(response_data) ==
    IF Has(response_data, "next_cursor") THEN response_data["next_cursor"] ELSE "None"

\* a test that stops only when there is no cursor at all: next_cursor is None
IsNoneCursor(next_cursor) == next_cursor = "None"

\* not next_cursor: None and the empty str are falsy
NotCursor(next_cursor) == next_cursor \in {"None", ""}

\* the while True loop of GetTasks.execute: request page i with the cursor of
\* page i - 1; stop at the first page without next_cursor
RECURSIVE FetchPages(_, _, _)
FetchPages(http, i, all_tasks) ==
    LET r == http[i]
        js == BodyJson(r.body)
        tasks == IF Has(js.dict, "results") THEN js.dict["results"] ELSE <<>>
    IN  IF r.raised THEN [raised |-> TRUE, text |-> ConnErrText, r |-> r, all_tasks |-> all_tasks, pages |-> i]
        ELSE IF ~js.ok THEN [raised |-> TRUE, text |-> JsonErrText, r |-> r, all_tasks |-> all_tasks, pages |-> i]
        ELSE IF NotCursor(NextCursor(js.dict))
             THEN [raised |-> FALSE, text |-> "", r |-> r, all_tasks |-> all_tasks \o tasks, pages |-> i]
        ELSE FetchPages(http, i + 1, all_tasks \o tasks)

\* the single request of GetTasks.execute with a filter
FetchFiltered(http) ==
    LET r == http[1]
        js == BodyJson(r.body)
        tasks == IF Has(js.dict, "results") THEN js.dict["results"] ELSE <<>>
    IN  IF r.raised THEN [raised |-> TRUE, text |-> ConnErrText, r |-> r, all_tasks |-> <<>>, pages |-> 1]
        ELSE IF ~js.ok THEN [raised |-> TRUE, text |-> JsonErrText, r |-> r, all_tasks |-> <<>>, pages |-> 1]
        ELSE [raised |-> FALSE, text |-> "", r |-> r, all_tasks |-> tasks, pages |-> 1]

\* the keys the formatting loop subscripts
TaskKeys == {"id", "content", "due", "priority"}

\* GetTasks.execute: the fetch is inside a try, the test of the last
\* response's status and the formatting loop are after it
GetTasksExecute(kwargs, http) ==
    LET filters == Has(kwargs, "filter") /\ kwargs["filter"] # ""
        got == IF filters THEN FetchFiltered(http) ELSE FetchPages(http, 1, <<>>)
    IN  IF got.raised THEN SystemError(got.text)
        ELSE IF got.r.status = 200
             THEN IF \E i \in 1..Len(got.all_tasks) : ~(TaskKeys \subseteq DOMAIN got.all_tasks[i])
                  THEN Raise("KeyError")
                  ELSE Text(JoinLines([i \in 1..Len(got.all_tasks) |->
                                          FormatTask(got.all_tasks[i])]))
        ELSE Text("Error " \o ToString(got.r.status) \o ": " \o BodyText(got.r.body))

\* the requests GetTasks.execute sends for a script of exchanges
PagesFetched(kwargs, http) ==
    IF Has(kwargs, "filter") /\ kwargs["filter"] # "" THEN 1 ELSE FetchPages(http, 1, <<>>).pages

CloseTaskExecute(kwargs, http) ==
    LET r == http[1]
    IN  IF ~(Has(kwargs, "task_id") /\ kwargs["task_id"] # "")
        THEN Text("Error: Argument 'task_id' is missing. Please provide the ID of the task you want to close.")
        ELSE IF r.raised THEN SystemError(ConnErrText)
        ELSE IF r.status \in {200, 204}
             THEN Text("Successfully closed task (ID: " \o kwargs["task_id"] \o ").")
        ELSE Text("Error closing task " \o kwargs["task_id"] \o ": " \o ToString(r.status)
                  \o " - " \o BodyText(r.body))

UpdateTaskExecute(kwargs, http) ==
    LET r == http[1]
        payload == DOMAIN kwargs \ {"task_id"}
        task_id == IF Has(kwargs, "task_id") THEN kwargs["task_id"] ELSE "None"
    IN  IF payload = {} THEN Text("No data to update")
        ELSE IF r.raised THEN SystemError(ConnErrText)
        ELSE IF r.status = 200
             THEN Text("Successfully updated task (ID: " \o task_id \o ").")
        ELSE Text("Error updating task " \o task_id \o ": " \o ToString(r.status)
                  \o " - " \o BodyText(r.body))

DeleteTaskExecute(kwargs, http) ==
    LET r == http[1]
    IN  IF ~(Has(kwargs, "task_id") /\ kwargs["task_id"] # "")
        THEN Text("Error: Argument 'task_id' is missing. Please provide the ID of the task you want to delete.")
        ELSE IF r.raised THEN SystemError(ConnErrText)
        ELSE IF r.status \in {200, 204}
             THEN Text("Successfully deleted task (ID: " \o kwargs["task_id"] \o ").")
        ELSE Text("Error deleting task " \o kwargs["task_id"] \o ": " \o ToString(r.status)
                  \o " - " \o BodyText(r.body))

----------------------------------------------------------------------------
(* chat/tools/registry.py *)

\* the tool objects __init__ builds, each by its class, in the order of the
\* dict display
ToolClasses == <<"CalculatorTool", "CreateTask", "CloseTask", "GetTasks", "UpdateTask", "DeleteTask">>

\* the name property of each tool class
ToolName(tool) == IF tool = "CalculatorTool" THEN "Calculator" ELSE tool

\* self.tools after __init__: a dict, as its items in insertion order
RegistryTools ==
    [i \in 1..Len(ToolClasses) |-> [key |-> ToolName(ToolClasses[i]), tool |-> ToolClasses[i]]]

RegisteredNames == {RegistryTools[i].key : i \in 1..Len(RegistryTools)}

\* a lookup by subscript: self.tools[name]
get_tool_subscript(name) ==
    IF \E i \in DOMAIN tools : tools[i].key = name
    THEN tools[CHOOSE i \in DOMAIN tools : tools[i].key = name].tool
    ELSE "KeyError"

\* ToolRegistry.get_tool: dict.get, "None" when the name is not a key
get_tool(name) ==
    IF \E i \in DOMAIN tools : tools[i].key = name
    THEN tools[CHOOSE i \in DOMAIN tools : tools[i].key = name].tool
    ELSE "None"

\* the entry of the catalogue for one tool (description and parameters left out)
Definition(tool) == [type |-> "function", name |-> ToolName(tool)]

\* ToolRegistry.get_tools_definitions: one definition per value of the dict
get_tools_definitions == [i \in 1..Len(tools) |-> Definition(tools[i].tool)]

\* tool.execute(**kwargs) of a tool object
Execute(tool, kwargs, http) ==
    CASE tool = "CalculatorTool" -> CalculatorExecute(kwargs)
      [] tool = "CreateTask" -> CreateTaskExecute(kwargs, http)
      [] tool = "CloseTask"  -> CloseTaskExecute(kwargs, http)
      [] tool = "GetTasks"   -> GetTasksExecute(kwargs, http)
      [] tool = "UpdateTask" -> UpdateTaskExecute(kwargs, http)
      [] tool = "DeleteTask" -> DeleteTaskExecute(kwargs, http)

----------------------------------------------------------------------------
(* chat/models.py. A table is the sequence of its rows, a row's primary key *)
(* its index; a foreign key is a primary key, 0 for NULL.                   *)

AIModelTypes == {"main_chat", "intent_classifier", "tool_todoist"}
PromptTypes == {"main_persona", "intent_classifier", "tool_todoist"}

AIModelRow(name, api_name, target_type, is_active) ==
    [name |-> name, api_name |-> api_name, target_type |-> target_type, is_active |-> is_active]

SystemPromptRow(name, content, target_type, is_active) ==
    [name |-> name, content |-> content, target_type |-> target_type, is_active |-> is_active]

AgentModeRow(key, is_default) == [key |-> key, is_default |-> is_default]

\* objects.filter(target_type=..., is_active=True): the primary keys
ActiveKeys(rows, target_type) ==
    {i \in 1..Len(rows) : rows[i].target_type = target_type /\ rows[i].is_active}

\* .first(): the row of the filter with the least primary key
First(keys) == CHOOSE i \in keys : \A j \in keys : i <= j

\* objects.filter(target_type=self.target_type, is_active=True).update(is_active=False)
DeactivateType(rows, target_type) ==
    [i \in 1..Len(rows) |->
        IF rows[i].target_type = target_type /\ rows[i].is_active
        THEN [rows[i] EXCEPT !.is_active = FALSE] ELSE rows[i]]

\* AgentMode.objects.filter(is_default=True).update(is_default=False)
ClearDefault(rows) ==
    [i \in 1..Len(rows) |-> IF rows[i].is_default THEN [rows[i] EXCEPT !.is_default = FALSE]
                                                  ELSE rows[i]]

\* Model.save: INSERT when the instance has no primary key, else UPDATE of
\* every field of its row
SuperSave(rows, pk, fields) ==
    IF pk = 0 THEN Append(rows, fields) ELSE [rows EXCEPT ![pk] = fields]

\* a save that writes the instance and leaves the other rows alone
AIModelSaveOnly(rows, pk, self) == SuperSave(rows, pk, self)

\* AIModel.save
AIModelSave(rows, pk, self) ==
    SuperSave(IF self.is_active THEN DeactivateType(rows, self.target_type) ELSE rows, pk, self)

\* SystemPrompt.save
SystemPromptSave(rows, pk, self) ==
    SuperSave(IF self.is_active THEN DeactivateType(rows, self.target_type) ELSE rows, pk, self)

\* AgentMode.save
AgentModeSave(rows, pk, self) ==
    SuperSave(IF self.is_default THEN ClearDefault(rows) ELSE rows, pk, self)

\* SystemPrompt.get_active_prompt: (content, name)
get_active_prompt(target_type) ==
    LET keys == ActiveKeys(system_prompts, target_type)
    IN  IF keys # {}
        THEN <<system_prompts[First(keys)].content, system_prompts[First(keys)].name>>
        ELSE <<"You are Synthia, the helpful AI assistant.", "Hardcoded Fallback">>

\* AIModel.get_active_model_name
get_active_model_name(target_type) ==
    LET keys == ActiveKeys(ai_models, target_type)
    IN  IF keys # {} THEN ai_models[First(keys)].api_name ELSE "gpt-3.5-turbo"

\* a Conversation row's two foreign keys
ConversationRow(ai_model, system_prompt) == [ai_model |-> ai_model, system_prompt |-> system_prompt]

\* a Message row
Row(role, content, ai_model_used, prompt_used_name) ==
    [role |-> role, content |-> content,
     ai_model_used |-> ai_model_used, prompt_used_name |-> prompt_used_name]

\* a handler that returns its answer without storing it
CreateAssistantMessageSkipped(rows, content, model_name, prompt_name_log) == rows

\* Message.objects.create(conversation, role='assistant', content, audit fields)
CreateAssistantMessage(rows, content, model_name, prompt_name_log) ==
    Append(rows, Row("assistant", content, model_name, prompt_name_log))

\* Message.objects.create(conversation, role='user', content)
CreateUserMessage(rows, content) ==
    Append(rows, Row("user", content, "None", "None"))

----------------------------------------------------------------------------
(* The completion client. What the provider did with one request is         *)
(*   [ok |-> FALSE]                       the call raised (auth, transport) *)
(*   [ok |-> TRUE, content, tool_calls]   choices[0].message                *)

LLMErrorText == "Error! There was a problem connecting to LLM. Please try again later."
LegacyLLMErrorText == "ERROR! There was a problem connecting to LLM. Please try again later."

Failure == [ok |-> FALSE, content |-> "", tool_calls |-> <<>>]
Message(content, tool_calls) == [ok |-> TRUE, content |-> content, tool_calls |-> tool_calls]

\* chat/services/llm_factory.py, OpenAIService.get_response: the message
\* object, or on any exception a plain str
get_response(api) ==
    IF api.ok THEN [type |-> "message", content |-> api.content, tool_calls |-> api.tool_calls]
              ELSE [type |-> "str", content |-> LLMErrorText, tool_calls |-> <<>>]

\* a str has neither .content nor .tool_calls: reading one raises AttributeError
HasMessageAttrs(response) == response.type = "message"

\* chat/services.py, OpenAIService.get_response: the message's content, or on
\* any exception the error text, both a str
legacy_get_response(api) ==
    IF api.ok THEN api.content ELSE LegacyLLMErrorText

\* the tools argument of a request that passes none
NoTools == <<>>

Request(kind, msgs, tools_) == [kind |-> kind, messages |-> msgs, tools |-> tools_]

----------------------------------------------------------------------------
(* str.strip() and str.upper() on the classifier's answer, a sequence of    *)
(* characters                                                               *)

Whitespace == {" ", "\n", "\t"}

RECURSIVE LStrip(_)
LStrip(cs) == IF cs # <<>> /\ Head(cs) \in Whitespace THEN LStrip(Tail(cs)) ELSE cs

RECURSIVE RStrip(_)
RStrip(cs) ==
    IF cs # <<>> /\ cs[Len(cs)] \in Whitespace THEN RStrip(SubSeq(cs, 1, Len(cs) - 1)) ELSE cs

Strip(cs) == RStrip(LStrip(cs))

UpperChar(c) ==
    CASE c = "y" -> "Y" [] c = "e" -> "E" [] c = "s" -> "S"
      [] c = "n" -> "N" [] c = "o" -> "O" [] OTHER -> c

Upper(cs) == [i \in 1..Len(cs) |-> UpperChar(cs[i])]

\* a comparison of the answer as it came: intent == 'YES'
IsYesVerbatim(answer) == answer = <<"Y", "E", "S">>

\* handle_message: intent.strip().upper() == 'YES'
IsYes(answer) == Upper(Strip(answer)) = <<"Y", "E", "S">>

----------------------------------------------------------------------------
(* chat/services/orchestrator.py *)

\* the slice [:10] of _prepare_context
ContextLimit == 10

Msg(role, content) == [role |-> role, content |-> content]

\* a query that takes the oldest rows: order_by('timestamp')[:10]
OldestRows(rows) ==
    IF Len(rows) <= ContextLimit THEN rows ELSE SubSeq(rows, 1, ContextLimit)

\* order_by('-timestamp')[:10], then reversed: the last rows, oldest first
RecentRows(rows) ==
    IF Len(rows) <= ContextLimit THEN rows
    ELSE SubSeq(rows, Len(rows) - ContextLimit + 1, Len(rows))

\* a context assembler that looks at the global configuration only
PrepareContextGlobal(rows) ==
    LET prompt == get_active_prompt("main_persona")
        recent == RecentRows(rows)
    IN  [context |-> <<Msg("system", prompt[1])>>
                     \o [i \in 1..Len(recent) |-> Msg(recent[i].role, recent[i].content)],
         model_name |-> get_active_model_name("main_chat"),
         prompt_name_log |-> prompt[2]]

\* _prepare_context: (context, model_name, prompt_name_log)
PrepareContext(rows) ==
    LET model_name == IF conversation.ai_model # 0
                      THEN ai_models[conversation.ai_model].api_name
                      ELSE get_active_model_name("main_chat")
        prompt == IF conversation.system_prompt # 0
                  THEN <<system_prompts[conversation.system_prompt].content,
                         system_prompts[conversation.system_prompt].name>>
                  ELSE get_active_prompt("main_persona")
        recent == RecentRows(rows)
    IN  [context |-> <<Msg("system", prompt[1])>>
                     \o [i \in 1..Len(recent) |-> Msg(recent[i].role, recent[i].content)],
         model_name |-> model_name,
         prompt_name_log |-> prompt[2]]

\* views.py, perform_create between the two writes: (context, model_name,
\* prompt_name_log); the instruction is that of views.py, in ASCII
ViewContext(rows) ==
    LET model_name == IF conversation.ai_model # 0
                      THEN ai_models[conversation.ai_model].name
                      ELSE "gpt-5-nano"
        prompt == IF conversation.system_prompt # 0
                  THEN <<system_prompts[conversation.system_prompt].content,
                         system_prompts[conversation.system_prompt].name>>
                  ELSE <<"Jestes Synthia, pomocna asystentka AI.", "Standard (Hardcoded)">>
        recent == RecentRows(rows)
    IN  [context |-> <<Msg("system", prompt[1])>>
                     \o [i \in 1..Len(recent) |-> Msg(recent[i].role, recent[i].content)],
         model_name |-> model_name,
         prompt_name_log |-> prompt[2]]

\* _classify_intent: the one system message it sends
ClassifierPrompt(text) ==
    <<Msg("system", get_active_prompt("intent_classifier")[1] \o ": " \o text)>>

\* json.loads(tool_call.function.arguments) with the except clause: the
\* arguments are raw = [syntax, value]; a JSONDecodeError gives {}
ParseArguments(raw) == IF raw.syntax = "invalid" THEN EmptyArgs ELSE raw.value

\* tool.execute(**func_args) raises TypeError unless func_args is a mapping
IsMapping(raw) == raw.syntax # "array"

NotFoundText(func_name) == "Error: Tool " \o func_name \o " not found."

\* the system message that carries a tool's result
ToolInfoPrompt(func_name, result) ==
    Msg("system", "Tool " \o func_name \o " executed. Result: " \o Format(result) \o ". "
                  \o "Note: If the result indicates an error, inform the user about it truthfully.")

\* the tool call _handle_tool_usage handles: tool_calls[0]
SelectedCalls(tool_calls) == <<tool_calls[1]>>

----------------------------------------------------------------------------
(* What the environment can send *)

UserTexts == {"hi", "What is 12 divided by 0?"}

ReplyTexts == {"Sure.", "You can't divide by zero."}

IntentAnswers ==
    { <<"Y", "E", "S">>, <<" ", "y", "e", "s", "\n">>, <<"N", "O">>, <<"Y", "E", "S", "!">> }

Invalid == [syntax |-> "invalid", value |-> EmptyArgs]
Obj(d) == [syntax |-> "object", value |-> d]
Arr == [syntax |-> "array", value |-> EmptyArgs]

OpArg(op) == IF op = "None" THEN EmptyArgs ELSE "operation" :> op
NumArg(key, present, n) == IF present THEN key :> n ELSE EmptyArgs

\* every argument set of the Calculator: operation one of the four, unknown
\* or missing; x and y a number or missing
CalcArgSets ==
    { OpArg(op) @@ NumArg("x", hx, x) @@ NumArg("y", hy, y) :
        op \in {"add", "subtract", "multiply", "divide", "power", "None"},
        hx \in BOOLEAN, x \in Numbers, hy \in BOOLEAN, y \in Numbers }

TaskArgSets ==
    { EmptyArgs, [task_id |-> "t1"], [task_id |-> "t1", content |-> "milk"],
      [content |-> "milk"], [filter |-> "today"] }

TodoistNames == RegisteredNames \ {"Calculator"}

Call(name, raw) == [name |-> name, arguments |-> raw]

SingleCalls ==
    { Call("Calculator", raw) : raw \in {Obj(d) : d \in CalcArgSets} \cup {Invalid, Arr} }
    \cup { Call(n, raw) : n \in TodoistNames, raw \in {Obj(d) : d \in TaskArgSets} \cup {Invalid} }
    \cup { Call("Weather", raw) : raw \in {Invalid, Obj(EmptyArgs)} }

FirstOfTwo ==
    { Call("Calculator", Obj([operation |-> "add", x |-> 1, y |-> 2])),
      Call("Weather", Obj(EmptyArgs)),
      Call("CloseTask", Obj([task_id |-> "t1"])) }

SecondOfTwo ==
    { Call("Calculator", Invalid),
      Call("Calculator", Obj([operation |-> "divide", x |-> 1, y |-> 0])),
      Call("Weather", Obj(EmptyArgs)),
      Call("GetTasks", Obj(EmptyArgs)) }

\* the provider numbers the calls of one message
WithIds(calls) ==
    [i \in 1..Len(calls) |->
        [id |-> "call_" \o ToString(i), name |-> calls[i].name, arguments |-> calls[i].arguments]]

ToolCallLists ==
    { WithIds(<<c>>) : c \in SingleCalls }
    \cup { WithIds(<<c, d>>) : c \in FirstOfTwo, d \in SecondOfTwo }

\* answers to a request that offers the catalogue
ToolApiOutcomes ==
    {Failure} \cup { Message(t, <<>>) : t \in ReplyTexts }
    \cup { Message("", tc) : tc \in ToolCallLists }

\* answers to a request that offers no catalogue; a client that answers
\* with a tool call all the same is among them
PlainApiOutcomes ==
    {Failure} \cup { Message(t, <<>>) : t \in ReplyTexts }
    \cup { Message("", WithIds(<<Call("Calculator", Obj([operation |-> "add", x |-> 1, y |-> 2]))>>)) }

IntentApiOutcomes ==
    { [ok |-> FALSE, content |-> <<>>, tool_calls |-> <<>>] }
    \cup { Message(a, <<>>) : a \in IntentAnswers }

HttpOutcomes ==
    { TransportFailure, Http(200, "task"), Http(200, "page_last"), Http(204, "empty"),
      Http(404, "html"), Http(403, "error_obj") }

\* the exchanges one execute call sees, in order; only GetTasks asks twice
HttpScripts(tool, kwargs) ==
    IF tool \notin TodoistNames THEN { <<Http(204, "empty")>> }
    ELSE { <<r>> : r \in HttpOutcomes }
         \cup (IF tool = "GetTasks" /\ ~Has(kwargs, "filter")
               THEN { <<Http(200, "page_more"), r>> : r \in HttpOutcomes }
               ELSE {})

----------------------------------------------------------------------------
(* State machine *)

NoResponse == [type |-> "none", content |-> "", tool_calls |-> <<>>]

\* no inbound message has been served: the handler's locals are unset
HandlerIdle ==
    /\ pc = "idle"
    /\ channel = "bot"
    /\ message_text = ""
    /\ intent = <<>>
    /\ context = <<>>
    /\ response_msg = NoResponse
    /\ requests = <<>>
    /\ responses = <<>>
    /\ llm_failed = FALSE
    /\ handled = <<>>
    /\ reply = ""
    /\ exception = ""
    /\ runStart = 0

NoSave == [model |-> "None", cleared |-> FALSE]

\* a database without configuration rows, a conversation without overrides
NoConfig ==
    /\ ai_models = <<>>
    /\ system_prompts = <<>>
    /\ agent_modes = <<>>
    /\ conversation = ConversationRow(0, 0)
    /\ last_save = NoSave

\* the two processes that write Message rows: the bot (run_bot.py) and the
\* web server (views.py)
Processes == {"bot", "api"}

Waiting == [pc |-> "idle", msg |-> 0, text |-> "", context |-> <<>>]

\* both processes wait for an inbound message
NoRequest ==
    /\ handlers = [p \in Processes |-> Waiting]
    /\ stored = <<>>

\* ToolRegistry.__init__
NewRegistry ==
    /\ tools = RegistryTools
    /\ registry_calls = <<>>

\* core.py, Conversation.__init__
NewConversation ==
    /\ core_messages = <<>>
    /\ core_calls = <<>>
    /\ core_history = [kind |-> "none", text |-> "", calls |-> 0]

\* run_bot.py, Command.handle: the bot polls, nothing has arrived
BotListening ==
    /\ updates = <<>>
    /\ bot_conversations = {}
    /\ bot_messages = <<>>
    /\ bot_effects = <<>>

\* the processes that save configuration rows: two requests to the admin
\* site, or the admin site and a shell
Savers == {"s1", "s2"}

\* a process between two calls of save()
IdleSaver(saves) == [pc |-> "idle", model |-> "None", pk |-> 0, self |-> <<>>, saves |-> saves]

NoSaveInProgress == savers = [p \in Savers |-> IdleSaver(0)]

\* no response yet
NoExchange == [raised |-> FALSE, status |-> 0, body |-> "none"]

\* GetTasks.execute has not entered its loop
NotPaging ==
    /\ cursor = "None"
    /\ page_sent = "unsent"
    /\ page_prev = NoExchange
    /\ page_answer = NoExchange
    /\ page_count = 0
    /\ page_pc = "idle"

NotRun == [kind |-> "pending", text |-> ""]

\* no execute has been called directly
NoToolCall ==
    /\ tool_input = [tool |-> "None", kwargs |-> EmptyArgs, http |-> <<>>]
    /\ tool_output = NotRun

Init ==
    /\ messages = <<>>
    /\ turns = 0
    /\ HandlerIdle
    /\ NoConfig
    /\ NoRequest
    /\ NewRegistry
    /\ NoToolCall
    /\ NewConversation
    /\ BotListening
    /\ NotPaging
    /\ NoSaveInProgress

Ready == pc \in {"idle", "returned", "raised"} /\ turns < MaxTurns

\* an exception leaves the handler: nothing more is written
Raised(e) ==
    /\ pc' = "raised"
    /\ exception' = e
    /\ UNCHANGED <<messages, reply>>

\* a handler that also stores the tool's result message it appended to the
\* running list
ReturnedWithToolResult(content, model_name, prompt_name_log) ==
    /\ messages' = CreateAssistantMessage(
                       IF handled = <<>> THEN messages
                       ELSE Append(messages, Row("system", context[Len(context)].content,
                                                 "None", "None")),
                       content, model_name, prompt_name_log)
    /\ reply' = content
    /\ pc' = "returned"
    /\ UNCHANGED exception

\* the handler persists the assistant's answer and returns it
Returned(content, model_name, prompt_name_log) ==
    /\ messages' = CreateAssistantMessage(messages, content, model_name, prompt_name_log)
    /\ reply' = content
    /\ pc' = "returned"
    /\ UNCHANGED exception

\* run_bot.py, Command.process_telegram_message up to the call of
\* handle_message: store the user's message, build the orchestrator
ProcessTelegramMessage ==
    \E user_text \in UserTexts :
        /\ Ready
        /\ messages' = CreateUserMessage(messages, user_text)
        /\ runStart' = Len(messages) + 1
        /\ message_text' = user_text
        /\ channel' = "bot"
        /\ pc' = "classify"
        /\ turns' = turns + 1
        /\ intent' = <<>>
        /\ context' = <<>>
        /\ response_msg' = NoResponse
        /\ requests' = <<>>
        /\ responses' = <<>>
        /\ llm_failed' = FALSE
        /\ handled' = <<>>
        /\ reply' = ""
        /\ exception' = ""
        /\ UNCHANGED fixedVars

\* handle_message with _classify_intent: one request, then the branch
ClassifyIntent ==
    \E api \in IntentApiOutcomes :
        LET response_obj == get_response(api)
        IN  /\ pc = "classify"
            /\ requests' = Append(requests, Request("intent", ClassifierPrompt(message_text), NoTools))
            /\ llm_failed' = ~api.ok
            /\ IF ~HasMessageAttrs(response_obj)
               THEN /\ Raised("AttributeError")
                    /\ UNCHANGED intent
               ELSE /\ intent' = response_obj.content
                    /\ pc' = IF IsYes(response_obj.content) THEN "tool_first" ELSE "normal"
                    /\ UNCHANGED <<messages, reply, exception>>
            /\ UNCHANGED <<channel, message_text, context, response_msg, responses,
                           handled, runStart, turns>>
            /\ UNCHANGED fixedVars

\* _get_normal_response
GetNormalResponse ==
    \E api \in PlainApiOutcomes :
        LET prepared == PrepareContext(messages)
            response_msg_ == get_response(api)
        IN  /\ pc = "normal"
            /\ context' = prepared.context
            /\ requests' = Append(requests, Request("chat", prepared.context, NoTools))
            /\ responses' = Append(responses, response_msg_)
            /\ llm_failed' = ~api.ok
            /\ IF ~HasMessageAttrs(response_msg_)
               THEN Raised("AttributeError")
               ELSE Returned(response_msg_.content, prepared.model_name, prepared.prompt_name_log)
            /\ UNCHANGED <<channel, message_text, intent, response_msg, handled, runStart, turns>>
            /\ UNCHANGED fixedVars

\* _handle_tool_usage up to the test of response_msg.tool_calls, and its else
\* branch
ToolFirstRequest ==
    \E api \in ToolApiOutcomes :
        LET prepared == PrepareContext(messages)
            first == get_response(api)
        IN  /\ pc = "tool_first"
            /\ context' = prepared.context
            /\ requests' = Append(requests, Request("chat", prepared.context, get_tools_definitions))
            /\ responses' = Append(responses, first)
            /\ llm_failed' = ~api.ok
            /\ response_msg' = first
            /\ IF ~HasMessageAttrs(first)
               THEN Raised("AttributeError")
               ELSE IF first.tool_calls # <<>>
               THEN /\ pc' = "tool_exec"
                    /\ UNCHANGED <<messages, reply, exception>>
               ELSE Returned(first.content, prepared.model_name, prepared.prompt_name_log)
            /\ UNCHANGED <<channel, message_text, intent, handled, runStart, turns>>
            /\ UNCHANGED fixedVars

\* _handle_tool_usage, the if branch up to context.append: parse the
\* arguments, look the tool up, execute it, append its result
ExecuteTool ==
    /\ pc = "tool_exec"
    /\ LET tool_call == SelectedCalls(response_msg.tool_calls)[1]
           func_name == tool_call.name
           func_args == ParseArguments(tool_call.arguments)
           tool == get_tool(func_name)
       IN  \E http \in HttpScripts(tool, func_args) :
               LET result == IF tool = "None" THEN Text(NotFoundText(func_name))
                             ELSE IF ~IsMapping(tool_call.arguments) THEN Raise("TypeError")
                             ELSE Execute(tool, func_args, http)
               IN  /\ handled' = Append(handled,
                          [id |-> tool_call.id, name |-> func_name, args |-> func_args,
                           executed |-> tool # "None" /\ IsMapping(tool_call.arguments),
                           result |-> result])
                   /\ IF result.kind = "raise"
                      THEN /\ Raised(result.text)
                           /\ UNCHANGED context
                      ELSE /\ context' = Append(context, ToolInfoPrompt(func_name, result))
                           /\ pc' = "tool_final"
                           /\ UNCHANGED <<messages, reply, exception>>
                   /\ UNCHANGED <<channel, message_text, intent, response_msg, requests,
                                  responses, llm_failed, runStart, turns>>
                   /\ UNCHANGED fixedVars

\* _handle_tool_usage after context.append: the second request, whose answer
\* is persisted and returned
ToolFinalRequest ==
    \E api \in PlainApiOutcomes :
        LET prepared == PrepareContext(messages)
            final_response == get_response(api)
        IN  /\ pc = "tool_final"
            /\ requests' = Append(requests, Request("chat", context, NoTools))
            /\ responses' = Append(responses, final_response)
            /\ llm_failed' = ~api.ok
            /\ IF ~HasMessageAttrs(final_response)
               THEN Raised("AttributeError")
               ELSE Returned(final_response.content, prepared.model_name, prepared.prompt_name_log)
            /\ UNCHANGED <<channel, message_text, intent, context, response_msg, handled,
                           runStart, turns>>
            /\ UNCHANGED fixedVars

\* views.py, MessageViewSet.perform_create: store the user's message, ask the
\* model, store what get_response returned
PerformCreate ==
    \E user_text \in UserTexts, api \in PlainApiOutcomes :
        LET saved == CreateUserMessage(messages, user_text)
            prepared == ViewContext(saved)
            ctx == prepared.context
            ai_content == legacy_get_response(api)
        IN  /\ Ready
            /\ channel' = "api"
            /\ message_text' = user_text
            /\ runStart' = Len(saved)
            /\ context' = ctx
            /\ requests' = <<Request("chat", ctx, NoTools)>>
            /\ responses' = <<[type |-> "str", content |-> ai_content, tool_calls |-> <<>>]>>
            /\ llm_failed' = ~api.ok
            /\ messages' = CreateAssistantMessage(saved, ai_content, prepared.model_name,
                                                  prepared.prompt_name_log)
            /\ pc' = "returned"
            /\ reply' = ""
            /\ exception' = ""
            /\ turns' = turns + 1
            /\ intent' = <<>>
            /\ response_msg' = NoResponse
            /\ handled' = <<>>
            /\ UNCHANGED fixedVars

Next ==
    \/ ProcessTelegramMessage
    \/ ClassifyIntent
    \/ GetNormalResponse
    \/ ToolFirstRequest
    \/ ExecuteTool
    \/ ToolFinalRequest
    \/ PerformCreate

Spec == Init /\ [][Next]_vars

----------------------------------------------------------------------------
(* Saves of configuration rows, one at a time: the admin site or a shell    *)
(* creates a row (pk = 0) or saves an instance of an existing row again     *)
(* with whatever values its fields hold                                     *)

SaveTypes == {"main_chat", "intent_classifier"}
SavePromptTypes == {"main_persona", "intent_classifier"}

\* the primary keys an instance can carry: none, or that of a stored row
InstanceKeys(rows) == (IF Len(rows) < MaxRows THEN {0} ELSE {}) \cup (1..Len(rows))

\* AgentMode.key is unique: an instance of a stored row carries that row's
\* key, a new instance a key no row has
ModeKey(rows, pk, prefix) ==
    IF pk = 0 THEN prefix \o ToString(Len(rows) + 1) ELSE rows[pk].key

\* the rows an update switched off
Deactivated(before, after) ==
    {i \in 1..Len(before) : before[i].is_active /\ ~after[i].is_active}

Undefaulted(before, after) ==
    {i \in 1..Len(before) : before[i].is_default /\ ~after[i].is_default}

SaveAIModel ==
    \E pk \in InstanceKeys(ai_models), target_type \in SaveTypes, is_active \in BOOLEAN :
        LET self == AIModelRow("model", "api-model", target_type, is_active)
        IN  /\ ai_models' = AIModelSave(ai_models, pk, self)
            /\ last_save' = [model |-> "AIModel",
                             cleared |-> Deactivated(ai_models, ai_models') \ {pk} # {}]
            /\ UNCHANGED <<system_prompts, agent_modes, conversation, orchVars, serverVars, registryVars, toolVars, coreVars, botVars, pageVars, saverVars>>

SaveSystemPrompt ==
    \E pk \in InstanceKeys(system_prompts), target_type \in SavePromptTypes, is_active \in BOOLEAN :
        LET self == SystemPromptRow("prompt", "You are Synthia.", target_type, is_active)
        IN  /\ system_prompts' = SystemPromptSave(system_prompts, pk, self)
            /\ last_save' = [model |-> "SystemPrompt",
                             cleared |-> Deactivated(system_prompts, system_prompts') \ {pk} # {}]
            /\ UNCHANGED <<ai_models, agent_modes, conversation, orchVars, serverVars, registryVars, toolVars, coreVars, botVars, pageVars, saverVars>>

SaveAgentMode ==
    \E pk \in InstanceKeys(agent_modes), is_default \in BOOLEAN :
        LET self == AgentModeRow(ModeKey(agent_modes, pk, "mode"), is_default)
        IN  /\ agent_modes' = AgentModeSave(agent_modes, pk, self)
            /\ last_save' = [model |-> "AgentMode",
                             cleared |-> Undefaulted(agent_modes, agent_modes') \ {pk} # {}]
            /\ UNCHANGED <<ai_models, system_prompts, conversation, orchVars, serverVars, registryVars, toolVars, coreVars, botVars, pageVars, saverVars>>

NextSaves ==
    \/ SaveAIModel
    \/ SaveSystemPrompt
    \/ SaveAgentMode

SpecSaves == Init /\ [][NextSaves]_vars

----------------------------------------------------------------------------
(* One inbound message, served in a conversation that has a history and in  *)
(* a database that has configuration rows                                   *)

\* the rows earlier turns left: a user row, its answer, a user row, ...
History(n) ==
    [i \in 1..n |->
        IF i % 2 = 1 THEN Row("user", "old " \o ToString(i), "None", "None")
        ELSE Row("assistant", "old " \o ToString(i), "gpt-3.5-turbo", "Hardcoded Fallback")]

Histories == {History(n) : n \in 0..MaxHistory}

\* SystemPrompt tables the saves can leave: at most one active row per type
PromptTables ==
    { <<>>,
      <<SystemPromptRow("Friendly", "You are friendly.", "main_persona", TRUE)>>,
      <<SystemPromptRow("Friendly", "You are friendly.", "main_persona", FALSE),
        SystemPromptRow("Formal", "You are formal.", "main_persona", TRUE)>>,
      <<SystemPromptRow("Router", "Answer YES or NO", "intent_classifier", TRUE)>> }

\* AIModel tables the saves can leave
ModelTables ==
    { <<>>,
      <<AIModelRow("GPT 4o", "gpt-4o", "main_chat", TRUE)>>,
      <<AIModelRow("GPT 4o", "gpt-4o", "main_chat", FALSE),
        AIModelRow("GPT 5", "gpt-5", "main_chat", TRUE)>>,
      <<AIModelRow("Nano", "gpt-5-nano", "intent_classifier", TRUE)>> }

\* the conversation's foreign keys: NULL or a row of the table
Overrides(rows) == 0..Len(rows)

InitTurn ==
    /\ turns = MaxTurns - 1
    /\ HandlerIdle
    /\ NoRequest
    /\ NewRegistry
    /\ NoToolCall
    /\ NewConversation
    /\ BotListening
    /\ NotPaging
    /\ NoSaveInProgress
    /\ agent_modes = <<>>
    /\ last_save = NoSave
    /\ \/ /\ messages \in Histories
          /\ ai_models = <<>>
          /\ system_prompts = <<>>
          /\ conversation = ConversationRow(0, 0)
       \/ /\ messages = <<>>
          /\ ai_models \in ModelTables
          /\ system_prompts \in PromptTables
          /\ \E m \in Overrides(ai_models), p \in Overrides(system_prompts) :
                 conversation = ConversationRow(m, p)

SpecTurn == InitTurn /\ [][Next]_vars

----------------------------------------------------------------------------
(* The bot and the web server on one conversation. The bot (run_polling,    *)
(* updates handled one after the other) and a request to the message API    *)
(* run in two processes on one database; each statement that reads or       *)
(* writes Message rows is a step, and nothing orders the steps of the two.  *)

\* the k-th inbound message of the behaviour, and an answer to a text
UserText(k) == "msg " \o ToString(k)
AnswerTo(text) == "re: " \o text

AnswerOutcomes(text) == {Failure, Message(AnswerTo(text), <<>>)}

Inserted(row, by) == [row |-> row, by |-> by]

\* a process has taken the k-th inbound message and inserted its user row
Stored(k) == [pc |-> "stored", msg |-> k, text |-> UserText(k), context |-> <<>>]

\* run_bot.py, process_telegram_message: Message.objects.create(role='user')
BotStoreUser ==
    /\ handlers["bot"].pc = "idle"
    /\ turns < MaxInbound
    /\ messages' = CreateUserMessage(messages, UserText(turns + 1))
    /\ stored' = Append(stored, Inserted(Row("user", UserText(turns + 1), "None", "None"),
                                         "run_bot"))
    /\ handlers' = [handlers EXCEPT !["bot"] = Stored(turns + 1)]
    /\ turns' = turns + 1
    /\ UNCHANGED <<handlerVars, configVars, registryVars, toolVars, coreVars, botVars, pageVars, saverVars>>

\* orchestrator.py, _prepare_context: the query of the last rows
BotPrepareContext ==
    /\ handlers["bot"].pc = "stored"
    /\ handlers' = [handlers EXCEPT !["bot"].pc = "prepared",
                                    !["bot"].context = PrepareContext(messages).context]
    /\ UNCHANGED <<orchVars, configVars, stored, registryVars, toolVars, coreVars, botVars, pageVars, saverVars>>

\* orchestrator.py, the last completion of the run and the insert of the
\* assistant row; a failed completion raises and nothing is inserted
BotAnswer ==
    \E api \in AnswerOutcomes(handlers["bot"].text) :
        LET prepared == PrepareContext(messages)
            response_msg_ == get_response(api)
            row == Row("assistant", response_msg_.content, prepared.model_name,
                       prepared.prompt_name_log)
        IN  /\ handlers["bot"].pc = "prepared"
            /\ IF HasMessageAttrs(response_msg_)
               THEN /\ messages' = CreateAssistantMessage(messages, response_msg_.content,
                                        prepared.model_name, prepared.prompt_name_log)
                    /\ stored' = Append(stored, Inserted(row, "orchestrator"))
               ELSE UNCHANGED <<messages, stored>>
            /\ handlers' = [handlers EXCEPT !["bot"] = Waiting]
            /\ UNCHANGED <<turns, handlerVars, configVars, registryVars, toolVars, coreVars, botVars, pageVars, saverVars>>

\* views.py, perform_create: serializer.save(role='user')
ApiStoreUser ==
    /\ handlers["api"].pc = "idle"
    /\ turns < MaxInbound
    /\ messages' = CreateUserMessage(messages, UserText(turns + 1))
    /\ stored' = Append(stored, Inserted(Row("user", UserText(turns + 1), "None", "None"),
                                         "views"))
    /\ handlers' = [handlers EXCEPT !["api"] = Stored(turns + 1)]
    /\ turns' = turns + 1
    /\ UNCHANGED <<handlerVars, configVars, registryVars, toolVars, coreVars, botVars, pageVars, saverVars>>

\* views.py, perform_create: the query of the last rows
ApiPrepareContext ==
    /\ handlers["api"].pc = "stored"
    /\ handlers' = [handlers EXCEPT !["api"].pc = "prepared",
                                    !["api"].context = ViewContext(messages).context]
    /\ UNCHANGED <<orchVars, configVars, stored, registryVars, toolVars, coreVars, botVars, pageVars, saverVars>>

\* views.py, perform_create: get_response and Message.objects.create
ApiAnswer ==
    \E api \in AnswerOutcomes(handlers["api"].text) :
        LET prepared == ViewContext(messages)
            ai_content == legacy_get_response(api)
            row == Row("assistant", ai_content, prepared.model_name, prepared.prompt_name_log)
        IN  /\ handlers["api"].pc = "prepared"
            /\ messages' = CreateAssistantMessage(messages, ai_content, prepared.model_name,
                                                  prepared.prompt_name_log)
            /\ stored' = Append(stored, Inserted(row, "views"))
            /\ handlers' = [handlers EXCEPT !["api"] = Waiting]
            /\ UNCHANGED <<turns, handlerVars, configVars, registryVars, toolVars, coreVars, botVars, pageVars, saverVars>>

NextServers ==
    \/ BotStoreUser
    \/ BotPrepareContext
    \/ BotAnswer
    \/ ApiStoreUser
    \/ ApiPrepareContext
    \/ ApiAnswer

SpecServers == Init /\ [][NextServers]_vars

\* the text a client puts in place of a stored one
EditedText == "edited"

RemoveAt(rows, i) == SubSeq(rows, 1, i - 1) \o SubSeq(rows, i + 1, Len(rows))

\* the PUT, PATCH and DELETE requests of the behaviour so far that still show
Edits ==
    (Len(stored) - Len(messages))
    + Cardinality({i \in 1..Len(messages) : messages[i].content = EditedText})

\* views.py, MessageViewSet: ModelViewSet's update and partial_update
UpdateMessage ==
    \E i \in 1..Len(messages) :
        /\ Edits < MaxEdits
        /\ messages[i].content # EditedText
        /\ messages' = [messages EXCEPT ![i].content = EditedText]
        /\ UNCHANGED <<turns, handlerVars, configVars, serverVars, registryVars, toolVars, coreVars, botVars, pageVars, saverVars>>

\* views.py, MessageViewSet: ModelViewSet's destroy
DestroyMessage ==
    \E i \in 1..Len(messages) :
        /\ Edits < MaxEdits
        /\ messages' = RemoveAt(messages, i)
        /\ UNCHANGED <<turns, handlerVars, configVars, serverVars, registryVars, toolVars, coreVars, botVars, pageVars, saverVars>>

NextApi ==
    \/ BotStoreUser
    \/ BotPrepareContext
    \/ BotAnswer
    \/ ApiStoreUser
    \/ ApiPrepareContext
    \/ ApiAnswer
    \/ UpdateMessage
    \/ DestroyMessage

SpecApi == Init /\ [][NextApi]_vars

----------------------------------------------------------------------------
(* Calls on a ToolRegistry after its construction *)

\* the names a caller looks up: the registered ones and others
LookupNames == RegisteredNames \cup {"Weather", "calculator", ""}

RegistryGetTool ==
    \E name \in LookupNames :
        /\ Len(registry_calls) < MaxCalls
        /\ registry_calls' = Append(registry_calls,
               [method |-> "get_tool", name |-> name, tool |-> get_tool(name),
                definitions |-> <<>>])
        /\ UNCHANGED <<tools, orchVars, configVars, serverVars, toolVars, coreVars, botVars, pageVars, saverVars>>

RegistryGetToolsDefinitions ==
    /\ Len(registry_calls) < MaxCalls
    /\ registry_calls' = Append(registry_calls,
           [method |-> "get_tools_definitions", name |-> "", tool |-> "None",
            definitions |-> get_tools_definitions])
    /\ UNCHANGED <<tools, orchVars, configVars, serverVars, toolVars, coreVars, botVars, pageVars, saverVars>>

NextRegistry ==
    \/ RegistryGetTool
    \/ RegistryGetToolsDefinitions

SpecRegistry == Init /\ [][NextRegistry]_vars

----------------------------------------------------------------------------
(* One execute of a task tool against a task API that answers as it likes   *)

Statuses == {200, 204, 400, 404, 500}

\* bodies without and with a next_cursor
FinalBodies == {"task", "page_last", "error_obj", "html", "empty"}
CursorBodies == {"page_more", "page_more_bad"}

Exchanges(bodies) == {Http(st, b) : st \in Statuses, b \in bodies}

\* the exchanges an execute sees, in order: GetTasks without a filter asks
\* again as long as the body holds a next_cursor
ToolScripts(tool, kwargs) ==
    { <<r>> : r \in {TransportFailure} \cup Exchanges(FinalBodies) }
    \cup (IF tool = "GetTasks" /\ ~Has(kwargs, "filter")
          THEN { <<p, r>> : p \in Exchanges(CursorBodies),
                            r \in {TransportFailure} \cup Exchanges(FinalBodies) }
          ELSE {})

InitTools ==
    /\ messages = <<>>
    /\ turns = 0
    /\ HandlerIdle
    /\ NoConfig
    /\ NoRequest
    /\ NewRegistry
    /\ NewConversation
    /\ BotListening
    /\ NotPaging
    /\ NoSaveInProgress
    /\ tool_output = NotRun
    /\ \E tool \in TodoistNames, kwargs \in TaskArgSets :
           \E http \in ToolScripts(tool, kwargs) :
               tool_input = [tool |-> tool, kwargs |-> kwargs, http |-> http]

\* tool.execute(**kwargs)
ExecuteTaskTool ==
    /\ tool_output = NotRun
    /\ tool_output' = Execute(tool_input.tool, tool_input.kwargs, tool_input.http)
    /\ UNCHANGED <<tool_input, orchVars, configVars, serverVars, registryVars, coreVars, botVars, pageVars, saverVars>>

SpecTools == InitTools /\ [][ExecuteTaskTool]_vars

----------------------------------------------------------------------------
(* Saves of configuration rows by two processes on one database. save() is  *)
(* two statements in autocommit mode, the UPDATE of the filter and the      *)
(* INSERT or UPDATE of super().save(); no transaction or lock spans them,   *)
(* so the statements of two saves interleave.                               *)

\* save() up to super().save(): the instance is in hand, the flag is tested
\* and the UPDATE of the filter has run
Cleared(p, model, pk, self) ==
    [savers EXCEPT ![p] = [pc |-> "cleared", model |-> model, pk |-> pk, self |-> self,
                           saves |-> savers[p].saves]]

BeginSaveAgentMode ==
    \E p \in Savers, pk \in InstanceKeys(agent_modes), is_default \in BOOLEAN :
        LET self == AgentModeRow(ModeKey(agent_modes, pk, p), is_default)
        IN  /\ savers[p].pc = "idle" /\ savers[p].saves < MaxSavesEach
            /\ agent_modes' = IF self.is_default THEN ClearDefault(agent_modes) ELSE agent_modes
            /\ savers' = Cleared(p, "AgentMode", pk, self)
            /\ UNCHANGED <<ai_models, system_prompts, conversation, last_save, orchVars,
                           serverVars, registryVars, toolVars, coreVars, botVars, pageVars>>

BeginSaveAIModel ==
    \E p \in Savers, pk \in InstanceKeys(ai_models), is_active \in BOOLEAN :
        LET self == AIModelRow("model", "api-model", "main_chat", is_active)
        IN  /\ savers[p].pc = "idle" /\ savers[p].saves < MaxSavesEach
            /\ ai_models' = IF self.is_active THEN DeactivateType(ai_models, self.target_type)
                                              ELSE ai_models
            /\ savers' = Cleared(p, "AIModel", pk, self)
            /\ UNCHANGED <<agent_modes, system_prompts, conversation, last_save, orchVars,
                           serverVars, registryVars, toolVars, coreVars, botVars, pageVars>>

BeginSaveSystemPrompt ==
    \E p \in Savers, pk \in InstanceKeys(system_prompts), is_active \in BOOLEAN :
        LET self == SystemPromptRow("prompt", "You are Synthia.", "main_persona", is_active)
        IN  /\ savers[p].pc = "idle" /\ savers[p].saves < MaxSavesEach
            /\ system_prompts' = IF self.is_active
                                 THEN DeactivateType(system_prompts, self.target_type)
                                 ELSE system_prompts
            /\ savers' = Cleared(p, "SystemPrompt", pk, self)
            /\ UNCHANGED <<agent_modes, ai_models, conversation, last_save, orchVars,
                           serverVars, registryVars, toolVars, coreVars, botVars, pageVars>>

\* super().save(): the instance's row is written, save() returns
FinishSave ==
    \E p \in Savers :
        LET doing == savers[p]
        IN  /\ doing.pc = "cleared"
            /\ agent_modes' = IF doing.model = "AgentMode"
                              THEN SuperSave(agent_modes, doing.pk, doing.self) ELSE agent_modes
            /\ ai_models' = IF doing.model = "AIModel"
                            THEN SuperSave(ai_models, doing.pk, doing.self) ELSE ai_models
            /\ system_prompts' = IF doing.model = "SystemPrompt"
                                 THEN SuperSave(system_prompts, doing.pk, doing.self)
                                 ELSE system_prompts
            /\ savers' = [savers EXCEPT ![p] = IdleSaver(doing.saves + 1)]
            /\ UNCHANGED <<conversation, last_save, orchVars, serverVars, registryVars,
                           toolVars, coreVars, botVars, pageVars>>

NextConcurrentSaves ==
    \/ BeginSaveAgentMode
    \/ BeginSaveAIModel
    \/ BeginSaveSystemPrompt
    \/ FinishSave

SpecConcurrentSaves == Init /\ [][NextConcurrentSaves]_vars

----------------------------------------------------------------------------
(* The paging loop of GetTasks.execute without a filter, one iteration at a *)
(* time, against a task API that may hand out cursors for ever. The         *)
(* requests are counted up to MaxPages; the loop itself has no counter.     *)

PageBodies ==
    {"page_more", "page_more2", "page_more_bad", "page_last", "page_blank", "page_null",
     "error_obj", "html"}

PageAnswers == {TransportFailure} \cup {Http(st, b) : st \in {200, 500}, b \in PageBodies}

\* execute(**{}) has reached while True: cursor = None, nothing sent
InitPaging ==
    /\ messages = <<>>
    /\ turns = 0
    /\ HandlerIdle
    /\ NoConfig
    /\ NoRequest
    /\ NewRegistry
    /\ NoToolCall
    /\ NewConversation
    /\ BotListening
    /\ NoSaveInProgress
    /\ cursor = "None"
    /\ page_sent = "unsent"
    /\ page_prev = NoExchange
    /\ page_answer = NoExchange
    /\ page_count = 0
    /\ page_pc = "fetching"

\* one iteration of the loop: requests.get with params cursor, r.json(),
\* the test of next_cursor; an exception leaves the loop through the except
GetTasksPage ==
    \E r \in PageAnswers :
        LET js == BodyJson(r.body)
            next_cursor == NextCursor(js.dict)
        IN  /\ page_pc = "fetching"
            /\ page_sent' = cursor
            /\ page_prev' = page_answer
            /\ page_answer' = r
            /\ page_count' = IF page_count < MaxPages THEN page_count + 1 ELSE page_count
            /\ IF r.raised \/ ~js.ok \/ NotCursor(next_cursor)
               THEN /\ page_pc' = "returned"
                    /\ UNCHANGED cursor
               ELSE /\ cursor' = next_cursor
                    /\ UNCHANGED page_pc
            /\ UNCHANGED <<orchVars, configVars, serverVars, registryVars, toolVars,
                           coreVars, botVars, saverVars>>

SpecPaging == InitPaging /\ [][GetTasksPage]_vars

\* the loop is straight-line code around a blocking call: while it is inside
\* the loop it goes on to its next iteration
FairSpecPaging == SpecPaging /\ WF_vars(GetTasksPage)

----------------------------------------------------------------------------
(* core.py: the in-memory Conversation *)

\* an add_message that takes its arguments in the other order
add_message_swapped(msgs, content, author) ==
    Append(msgs, [author |-> content, content |-> author])

\* Conversation.add_message, through the log_interaction wrapper
add_message(msgs, content, author) ==
    Append(msgs, [author |-> author, content |-> content])

\* Conversation.view_history
view_history(msgs) ==
    JoinLines([i \in 1..Len(msgs) |-> msgs[i].author \o ": " \o msgs[i].content])

CoreAuthors == {"Synthia", "User"}
CoreContents == {"Ok. Understood.", "one\ntwo"}

CoreAddMessage ==
    \E content \in CoreContents, author \in CoreAuthors :
        /\ Len(core_calls) < MaxMessages
        /\ core_messages' = add_message(core_messages, content, author)
        /\ core_calls' = Append(core_calls, [content |-> content, author |-> author])
        /\ UNCHANGED <<core_history, orchVars, configVars, serverVars, registryVars, toolVars, botVars, pageVars, saverVars>>

CoreViewHistory ==
    /\ core_history' = [kind |-> "text", text |-> view_history(core_messages),
                        calls |-> Len(core_calls)]
    /\ UNCHANGED <<core_messages, core_calls, orchVars, configVars, serverVars,
                   registryVars, toolVars, botVars, pageVars, saverVars>>

NextCore ==
    \/ CoreAddMessage
    \/ CoreViewHistory

SpecCore == Init /\ [][NextCore]_vars

----------------------------------------------------------------------------
(* run_bot.py: the three handlers of the Telegram bot. run_polling hands    *)
(* the updates over one at a time, so a handler runs from its first to its  *)
(* last statement before the next update. What the orchestrator and the     *)
(* transcription do is their outcome only: a text, or an exception.         *)

\* settings.TELEGRAM_ALLOWED_USER_ID, a str
AllowedUserId == "1001"

\* update.effective_user.id of the senders, an int
Senders == {1001, 2002}

\* a handler without the check
check_auth_open(user_id) == TRUE

\* Command.check_auth: str(user_id) != allowed_user_id gives False
check_auth(user_id) == ~(ToString(user_id) # AllowedUserId)

Outcomes == {"returned", "raised"}

Effect(what, u) == [what |-> what, update |-> u]

BotRow(u, topic, role, content) == [update |-> u, topic |-> topic, role |-> role, content |-> content]

\* Command.process_telegram_message for update u with the run's outcome:
\* the rows and effects it adds, and whether it returned
Processed(u, user_id, user_text, run) ==
    [conversations |-> bot_conversations \cup {user_id},
     messages |-> bot_messages
                  \o <<BotRow(u, user_id, "user", user_text)>>
                  \o (IF run = "returned"
                      THEN <<BotRow(u, user_id, "assistant", AnswerTo(user_text))>>
                      ELSE <<>>),
     effects |-> <<Effect("orchestrator", u)>>
                 \o (IF run = "returned" THEN <<Effect("send_message", u)>> ELSE <<>>)]

\* Command.start
BotStart ==
    \E sender \in Senders :
        LET u == Len(updates) + 1
        IN  /\ Len(updates) < MaxUpdates
            /\ updates' = Append(updates, [kind |-> "start", sender |-> sender])
            /\ bot_effects' = IF ~check_auth(sender) THEN bot_effects
                              ELSE Append(bot_effects, Effect("send_message", u))
            /\ UNCHANGED <<bot_conversations, bot_messages>>
            /\ UNCHANGED <<orchVars, configVars, serverVars, registryVars, toolVars, coreVars, pageVars, saverVars>>

\* Command.handle_message
BotHandleMessage ==
    \E sender \in Senders, user_text \in UserTexts, run \in Outcomes :
        LET u == Len(updates) + 1
            done == Processed(u, ToString(sender), user_text, run)
        IN  /\ Len(updates) < MaxUpdates
            /\ updates' = Append(updates, [kind |-> "text", sender |-> sender])
            /\ IF ~check_auth(sender)
               THEN UNCHANGED <<bot_conversations, bot_messages, bot_effects>>
               ELSE /\ bot_conversations' = done.conversations
                    /\ bot_messages' = done.messages
                    /\ bot_effects' = bot_effects \o <<Effect("chat_action", u)>> \o done.effects
            /\ UNCHANGED <<orchVars, configVars, serverVars, registryVars, toolVars, coreVars, pageVars, saverVars>>

\* Command.handle_voice
BotHandleVoice ==
    \E sender \in Senders, heard \in Outcomes, run \in Outcomes :
        LET u == Len(updates) + 1
            done == Processed(u, ToString(sender), "transcribed voice", run)
        IN  /\ Len(updates) < MaxUpdates
            /\ updates' = Append(updates, [kind |-> "voice", sender |-> sender])
            /\ IF ~check_auth(sender)
               THEN UNCHANGED <<bot_conversations, bot_messages, bot_effects>>
               ELSE IF heard = "raised"
               THEN /\ bot_effects' = bot_effects
                                      \o <<Effect("chat_action", u), Effect("transcription", u)>>
                    /\ UNCHANGED <<bot_conversations, bot_messages>>
               ELSE /\ bot_conversations' = done.conversations
                    /\ bot_messages' = done.messages
                    /\ bot_effects' = bot_effects
                                      \o <<Effect("chat_action", u), Effect("transcription", u)>>
                                      \o done.effects
            /\ UNCHANGED <<orchVars, configVars, serverVars, registryVars, toolVars, coreVars, pageVars, saverVars>>

NextBot ==
    \/ BotStart
    \/ BotHandleMessage
    \/ BotHandleVoice

SpecBot == Init /\ [][NextBot]_vars

----------------------------------------------------------------------------
(* Properties *)

\* the chat completion requests of the current run (the classifier's request
\* is of kind "intent")
ChatRequestCount == Cardinality({i \in DOMAIN requests : requests[i].kind = "chat"})

IsToolCallAnswer(r) == r.type = "message" /\ r.tool_calls # <<>>
IsPlainAnswer(r) == r.type = "message" /\ r.tool_calls = <<>>

\* the model has answered every chat request of the run with a tool call
AlwaysToolCalls == \A i \in DOMAIN responses : IsToolCallAnswer(responses[i])

\* the assistant rows written since the handler started its LLM work
NewRows == SubSeq(messages, runStart + 1, Len(messages))
NewAssistantRows == {i \in DOMAIN NewRows : NewRows[i].role = "assistant"}

\* the orchestrator is past the tool step of a run whose first answer
\* carried tool calls
ToolStepOver ==
    /\ channel = "bot"
    /\ response_msg.type = "message"
    /\ response_msg.tool_calls # <<>>
    /\ pc \in {"tool_final", "returned", "raised"}

\* the tool step appended its result message to the running list
ToolResultAppended ==
    /\ ToolStepOver
    /\ handled # <<>>
    /\ handled[Len(handled)].result.kind # "raise"

\* the handling records of one call id
HandledFor(id) == {j \in DOMAIN handled : handled[j].id = id}

\* an exception other than the completion client's failure left the handler
ToolLevelFailure == pc = "raised" /\ exception # "AttributeError"

\* C1: for every positive iteration limit N, a run in which the model answers
\* every completion request with a tool call issues at most N completion
\* requests.
C1_AtMostNRequests ==
    \A N \in 1..MaxLimit :
        (channel = "bot" /\ AlwaysToolCalls) => ChatRequestCount <= N

\* C2: when the completion client returns an assistant turn without tool
\* calls, the run terminates on that turn: it is the last answer of the run,
\* its content is the reply, and exactly one new assistant row, carrying that
\* content, has been persisted.
C2_PlainAnswerEndsRun ==
    channel = "bot" =>
        \A i \in DOMAIN responses :
            IsPlainAnswer(responses[i]) =>
                /\ i = Len(responses)
                /\ ChatRequestCount = Len(responses)
                /\ pc = "returned"
                /\ reply = responses[i].content
                /\ Len(NewRows) = 1
                /\ NewRows[1].role = "assistant"
                /\ NewRows[1].content = responses[i].content

C2_Witness ==
    /\ channel = "bot"
    /\ pc = "returned"
    /\ Len(responses) = 2
    /\ IsPlainAnswer(responses[2])
    /\ handled # <<>>

\* C3: with limit 2 and a model that requests a tool call on every completion
\* request, after the second round the run persists no new assistant row and
\* its reply is the abort notice, not an answer of the model.
C3_LimitAbortsWithoutTurn ==
    (channel = "bot" /\ pc = "returned" /\ Len(responses) = 2 /\ AlwaysToolCalls) =>
        /\ NewAssistantRows = {}
        /\ reply # responses[2].content

\* C4: every tool-result message in the running list carries a callId emitted
\* by the assistant message that immediately precedes the results in the list.
C4_ResultsAnswerPrecedingCalls ==
    ToolResultAppended =>
        LET n == Len(context)
        IN  /\ Has(context[n], "tool_call_id")
            /\ context[n - 1].role = "assistant"
            /\ Has(context[n - 1], "tool_calls")
            /\ \E i \in DOMAIN context[n - 1]["tool_calls"] :
                   context[n - 1]["tool_calls"][i].id = context[n]["tool_call_id"]

\* C5: for an assistant turn with k >= 1 tool calls, all k calls are handled
\* and exactly k results are appended, in call order, before the next
\* completion request.
C5_EveryCallHandledInOrder ==
    (channel = "bot" /\ pc = "tool_final") =>
        LET calls == response_msg.tool_calls
        IN  /\ Len(handled) = Len(calls)
            /\ \A i \in DOMAIN calls : handled[i].id = calls[i].id
            /\ Len(context) = Len(requests[Len(requests)].messages) + Len(calls)

\* C6: every tool call with unparsable arguments is handled with an empty
\* argument set and gets exactly one tool result, and no exception of the tool
\* step leaves handle_message.
C6_UnparsableArgumentsAbsorbed ==
    ToolStepOver =>
        \A i \in DOMAIN response_msg.tool_calls :
            response_msg.tool_calls[i].arguments.syntax = "invalid" =>
                /\ ~ToolLevelFailure
                /\ Cardinality(HandledFor(response_msg.tool_calls[i].id)) = 1
                /\ \A j \in HandledFor(response_msg.tool_calls[i].id) :
                       handled[j].args = EmptyArgs /\ handled[j].result.kind # "raise"

\* C7: a requested tool name that is not in the registry gets the synthesized
\* error text as the result of that call, nothing is executed for it, and
\* handle_message does not fail.
C7_UnknownToolAbsorbed ==
    ToolStepOver =>
        \A i \in DOMAIN response_msg.tool_calls :
            response_msg.tool_calls[i].name \notin RegisteredNames =>
                /\ ~ToolLevelFailure
                /\ Cardinality(HandledFor(response_msg.tool_calls[i].id)) = 1
                /\ \A j \in HandledFor(response_msg.tool_calls[i].id) :
                       /\ ~handled[j].executed
                       /\ handled[j].result = Text(NotFoundText(response_msg.tool_calls[i].name))

\* C8: the Calculator returns a text and raises nothing for every argument
\* set, also for a payload that is no set of named arguments, so no tool-level
\* failure leaves handle_message.
C8_CalculatorAlwaysReturnsText ==
    /\ \A j \in DOMAIN handled :
           handled[j].name = "Calculator" => handled[j].result.kind = "text"
    /\ ~ToolLevelFailure

\* C9: when a completion request fails inside the client, the turn ends with
\* an error outcome, and the client's error text is neither persisted as an
\* assistant row nor returned as the reply.
C9_ClientFailureIsAnError ==
    /\ \A i \in DOMAIN messages :
           messages[i].role = "assistant" =>
               messages[i].content \notin {LLMErrorText, LegacyLLMErrorText}
    /\ reply \notin {LLMErrorText, LegacyLLMErrorText}
    /\ llm_failed => pc = "raised"

DivideByZero(h) ==
    /\ h.name = "Calculator"
    /\ h.executed
    /\ Has(h.args, "operation") /\ h.args["operation"] = "divide"
    /\ Has(h.args, "y") /\ h.args["y"] = 0

DivZeroPrompt ==
    "Tool Calculator executed. Result: ERROR: You can't divide by zero!. "
    \o "Note: If the result indicates an error, inform the user about it truthfully."

\* C10: the Calculator called with divide and y = 0 returns the error text
\* without raising; the orchestrator then sends a further completion request
\* whose message list contains that text, persists the model's reply to it as
\* the assistant row and returns it.
C10_DivideByZeroIsRelayed ==
    \A j \in DOMAIN handled :
        DivideByZero(handled[j]) =>
            /\ handled[j].result = Text("ERROR: You can't divide by zero!")
            /\ pc \in {"tool_final", "returned", "raised"}
            /\ context[Len(context)].content = DivZeroPrompt
            /\ pc # "tool_final" =>
                   /\ Len(responses) = 2
                   /\ requests[Len(requests)].kind = "chat"
                   /\ \E k \in DOMAIN requests[Len(requests)].messages :
                          requests[Len(requests)].messages[k].content = DivZeroPrompt
            /\ pc = "raised" => llm_failed /\ exception = "AttributeError"
            /\ pc = "returned" =>
                   /\ reply = responses[2].content
                   /\ Len(NewRows) = 1
                   /\ NewRows[1].role = "assistant"
                   /\ NewRows[1].content = responses[2].content

C10_Witness ==
    /\ pc = "returned"
    /\ \E j \in DOMAIN handled : DivideByZero(handled[j])
    /\ reply = "You can't divide by zero."

\* C11: after any sequence of saves executed one at a time, at most one
\* AgentMode is the default, at most one AIModel is active per target type
\* and at most one SystemPrompt is active per target type
C11_AtMostOneActive ==
    /\ Cardinality({i \in 1..Len(agent_modes) : agent_modes[i].is_default}) <= 1
    /\ \A t \in AIModelTypes :
           Cardinality({i \in 1..Len(ai_models) :
                           ai_models[i].target_type = t /\ ai_models[i].is_active}) <= 1
    /\ \A t \in PromptTypes :
           Cardinality({i \in 1..Len(system_prompts) :
                           system_prompts[i].target_type = t /\ system_prompts[i].is_active}) <= 1

\* a save of an active AIModel has switched off the row that was active
C11_Witness ==
    /\ last_save.model = "AIModel"
    /\ last_save.cleared
    /\ Len(ai_models) = MaxRows

InProgress(p) == handlers[p].pc # "idle"

\* C12: the handling of a message of the conversation does not start until
\* the run for the previous one has ended; every user row of the log is
\* followed by an assistant row before the next user row; the context built
\* for a message holds no later message
C12_OneMessageAtATime ==
    /\ ~(InProgress("bot") /\ InProgress("api"))
    /\ \A i \in 1..(Len(messages) - 1) :
           messages[i].role = "user" => messages[i + 1].role = "assistant"
    /\ \A p \in Processes :
           \A i \in 1..Len(handlers[p].context), k \in 1..MaxInbound :
               k > handlers[p].msg => handlers[p].context[i].content # UserText(k)

\* C13: the log of the conversation is append-only: the rows stored are the
\* rows ever inserted, unchanged and in order, and each was inserted by the
\* orchestrator
C13_LogAppendOnly ==
    /\ messages = [i \in 1..Len(stored) |-> stored[i].row]
    /\ \A i \in 1..Len(stored) : stored[i].by = "orchestrator"

\* the first chat completion request of the turn that is being served
FirstChatRequest ==
    requests[CHOOSE i \in DOMAIN requests :
                 /\ requests[i].kind = "chat"
                 /\ \A j \in 1..(i - 1) : requests[j].kind # "chat"]

\* C14: the first chat completion request of a turn carries one system
\* message, then the min(10, n) most recent of the n stored rows, oldest
\* first, the last of them the user message that is being answered
C14_FirstRequestIsRecentHistory ==
    ChatRequestCount >= 1 =>
        LET sent == FirstChatRequest.messages
            n == runStart
            k == IF ContextLimit < n THEN ContextLimit ELSE n
        IN  /\ Len(sent) = 1 + k
            /\ sent[1].role = "system"
            /\ \A j \in 1..k : sent[1 + j] = Msg(messages[n - k + j].role, messages[n - k + j].content)
            /\ sent[Len(sent)] = Msg("user", message_text)

\* a request went out for a conversation that holds more rows than the limit
C14_Witness ==
    /\ ChatRequestCount >= 1
    /\ channel = "bot"
    /\ runStart > ContextLimit

\* the persona (content, name) and the model the claim resolves for a turn
ResolvedPersona ==
    IF conversation.system_prompt # 0
    THEN <<system_prompts[conversation.system_prompt].content,
           system_prompts[conversation.system_prompt].name>>
    ELSE IF \E i \in DOMAIN system_prompts :
                system_prompts[i].target_type = "main_persona" /\ system_prompts[i].is_active
    THEN LET i == CHOOSE i \in DOMAIN system_prompts :
                      system_prompts[i].target_type = "main_persona" /\ system_prompts[i].is_active
         IN  <<system_prompts[i].content, system_prompts[i].name>>
    ELSE <<"You are Synthia, the helpful AI assistant.", "Hardcoded Fallback">>

ResolvedModel ==
    IF conversation.ai_model # 0 THEN ai_models[conversation.ai_model].api_name
    ELSE IF \E i \in DOMAIN ai_models :
                ai_models[i].target_type = "main_chat" /\ ai_models[i].is_active
    THEN ai_models[CHOOSE i \in DOMAIN ai_models :
                       ai_models[i].target_type = "main_chat" /\ ai_models[i].is_active].api_name
    ELSE "gpt-3.5-turbo"

\* C15: an orchestrator turn uses the conversation's override persona, else
\* the active main persona, else the fallback named "Hardcoded Fallback",
\* resolves the model the same way, and the assistant row it stores records
\* that persona name and that model name
C15_ResolvedPersonaAndModelRecorded ==
    channel = "bot" =>
        /\ \A i \in DOMAIN requests :
               requests[i].kind = "chat" =>
                   requests[i].messages[1] = Msg("system", ResolvedPersona[1])
        /\ pc = "returned" =>
               /\ messages[Len(messages)].role = "assistant"
               /\ messages[Len(messages)].prompt_used_name = ResolvedPersona[2]
               /\ messages[Len(messages)].ai_model_used = ResolvedModel

\* a turn was answered in a conversation that overrides the persona while
\* another persona is active, and that takes the active model
C15_Witness ==
    /\ channel = "bot"
    /\ pc = "returned"
    /\ conversation.system_prompt = 1
    /\ Len(system_prompts) = 2
    /\ conversation.ai_model = 0
    /\ ai_models # <<>>
    /\ ResolvedModel # "gpt-3.5-turbo"

\* C16: the catalogue read from the registry is passed with every chat
\* completion request of a tool-using turn, the requests sent after a tool
\* result was appended included
C16_CatalogueWithEveryRequest ==
    (channel = "bot" /\ IsYes(intent)) =>
        \A i \in DOMAIN requests :
            requests[i].kind = "chat" => requests[i].tools = get_tools_definitions

SixNames == <<"Calculator", "CreateTask", "CloseTask", "GetTasks", "UpdateTask", "DeleteTask">>

\* C17: whatever get_tool and get_tools_definitions calls were made, the
\* registry holds the six tools it was built with; get_tool returned the tool
\* named as asked for each of the six names and None for any other name;
\* get_tools_definitions returned one definition per tool, in registry order
C17_RegistryReadOnly ==
    /\ Len(tools) = 6
    /\ \A i \in 1..6 : tools[i].key = SixNames[i] /\ ToolName(tools[i].tool) = SixNames[i]
    /\ \A c \in DOMAIN registry_calls :
           LET call == registry_calls[c]
           IN  /\ call.method = "get_tool" =>
                      IF \E i \in 1..6 : SixNames[i] = call.name
                      THEN call.tool \notin {"None", "KeyError"} /\ ToolName(call.tool) = call.name
                      ELSE call.tool = "None"
               /\ call.method = "get_tools_definitions" =>
                      /\ Len(call.definitions) = 6
                      /\ \A i \in 1..6 : call.definitions[i].name = SixNames[i]

\* a lookup of an unregistered name, a lookup of a registered one and a
\* listing have been made on one registry
C17_Witness ==
    /\ \E c \in DOMAIN registry_calls :
           registry_calls[c].method = "get_tool" /\ registry_calls[c].tool = "None"
    /\ \E c \in DOMAIN registry_calls :
           registry_calls[c].method = "get_tool" /\ registry_calls[c].tool = "CalculatorTool"
    /\ registry_calls[Len(registry_calls)].method = "get_tools_definitions"

\* the HTTP requests the execute of tool_input sent
HttpCalls ==
    LET tool == tool_input.tool
        kwargs == tool_input.kwargs
    IN  IF tool \in {"CloseTask", "DeleteTask"} /\ ~Has(kwargs, "task_id") THEN 0
        ELSE IF tool = "UpdateTask" /\ DOMAIN kwargs \ {"task_id"} = {} THEN 0
        ELSE IF tool = "GetTasks" THEN PagesFetched(kwargs, tool_input.http)
        ELSE 1

\* a transport failure or a status outside 200..299
FailedExchange(r) == r.raised \/ r.status \notin 200..299

\* the error messages of the task tools for an exchange
ErrorTexts(r) ==
    LET id == IF Has(tool_input.kwargs, "task_id") THEN tool_input.kwargs["task_id"] ELSE "None"
        tail == ToString(r.status) \o " - " \o BodyText(r.body)
    IN  { "System Error: " \o ConnErrText,
          "System Error: " \o JsonErrText,
          "Error " \o ToString(r.status) \o ": " \o BodyText(r.body),
          "Error closing task " \o id \o ": " \o tail,
          "Error updating task " \o id \o ": " \o tail,
          "Error deleting task " \o id \o ": " \o tail }

\* C18: when an HTTP call of a task tool's execute ends in a transport
\* failure or a non-2xx status, whatever the body and on whichever page,
\* execute returns an error message and does not raise
C18_FailedCallGivesErrorText ==
    tool_output # NotRun =>
        \A i \in 1..HttpCalls :
            FailedExchange(tool_input.http[i]) =>
                /\ tool_output.kind = "text"
                /\ \E j \in 1..HttpCalls : tool_output.text \in ErrorTexts(tool_input.http[j])

\* the lines "author: content" of the first n calls, each line after the
\* first put behind a newline
RECURSIVE HistoryOfCalls(_)
HistoryOfCalls(n) ==
    IF n = 0 THEN ""
    ELSE IF n = 1 THEN core_calls[1].author \o ": " \o core_calls[1].content
    ELSE HistoryOfCalls(n - 1) \o "\n" \o core_calls[n].author \o ": " \o core_calls[n].content

\* C19: after any sequence of add_message calls on a new conversation,
\* messages holds one record per call, in call order, with that call's
\* author and content; view_history returns the lines "author: content" of
\* the records, in order, joined by newlines, and leaves messages as it was
C19_MessagesAndHistoryFollowCalls ==
    /\ Len(core_messages) = Len(core_calls)
    /\ \A i \in 1..Len(core_calls) :
           /\ DOMAIN core_messages[i] = {"author", "content"}
           /\ core_messages[i].author = core_calls[i].author
           /\ core_messages[i].content = core_calls[i].content
    /\ core_history.kind = "text" => core_history.text = HistoryOfCalls(core_history.calls)

\* the history was read after all calls but the last, by two authors
C19_Witness ==
    /\ Len(core_calls) = MaxMessages
    /\ core_history.kind = "text"
    /\ core_history.calls = MaxMessages - 1
    /\ core_calls[1].author # core_calls[2].author

\* the update came from the user the bot is configured for
FromAllowedUser(u) == updates[u].sender = 1001

\* C20: an update whose sender is not the allowed user leaves no
\* Conversation, no Message, no orchestrator run, no transcription and no
\* reply behind; what the bot did, it did for updates of the allowed user
C20_OnlyAllowedUserIsServed ==
    /\ bot_conversations \subseteq {"1001"}
    /\ \A i \in DOMAIN bot_messages :
           FromAllowedUser(bot_messages[i].update) /\ bot_messages[i].topic = "1001"
    /\ \A i \in DOMAIN bot_effects : FromAllowedUser(bot_effects[i].update)

\* a voice message of a stranger was dropped and a text of the allowed user
\* was answered
C20_Witness ==
    /\ \E u \in DOMAIN updates : updates[u].kind = "voice" /\ ~FromAllowedUser(u)
    /\ \E u \in DOMAIN updates : updates[u].kind = "start" /\ ~FromAllowedUser(u)
    /\ \E i \in DOMAIN bot_effects :
           /\ bot_effects[i].what = "send_message"
           /\ updates[bot_effects[i].update].kind = "text"

\* the classifier's answers that read YES once the whitespace around them
\* is removed and their letters are capitals
YesAnswers == { <<"Y", "E", "S">>, <<" ", "y", "e", "s", "\n">> }

\* the classifier has answered the run's intent request
Classified == channel = "bot" /\ Len(requests) >= 1 /\ pc \notin {"classify", "idle"} /\ ~(pc = "raised" /\ Len(requests) = 1)

\* C21: a run of handle_message sends the intent request first and only
\* once; once the classifier has answered, the run is in the tool flow, whose
\* request carries the catalogue, exactly when the answer is YES after
\* trimming and upper-casing, and otherwise in the plain flow, whose one
\* request carries no catalogue and which executes no tool
C21_IntentDecidesFlow ==
    channel = "bot" /\ requests # <<>> =>
        /\ requests[1].kind = "intent" /\ requests[1].tools = NoTools
        /\ \A i \in 2..Len(requests) : requests[i].kind = "chat"
        /\ Len(requests) >= 2 => Classified
        /\ pc = "returned" => Len(requests) >= 2
        /\ Classified /\ intent \in YesAnswers =>
               /\ pc \in {"tool_first", "tool_exec", "tool_final", "returned", "raised"}
               /\ Len(requests) >= 2 => Len(requests[2].tools) = Len(ToolClasses)
        /\ Classified /\ intent \notin YesAnswers =>
               /\ pc \in {"normal", "returned", "raised"}
               /\ Len(requests) <= 2
               /\ \A i \in 2..Len(requests) : requests[i].tools = NoTools
               /\ handled = <<>>

\* the classifier said " yes\n" and the run executed a tool and returned; the
\* run before it was answered "YES!" and took the plain flow
C21_Witness ==
    /\ channel = "bot" /\ pc = "returned"
    /\ intent = <<" ", "y", "e", "s", "\n">>
    /\ Len(requests) = 3 /\ requests[2].tools # NoTools
    /\ handled # <<>>

\* the texts of the run's intermediate messages: the classifier's prompt and
\* the tool-result messages
IntermediateTexts ==
    (IF requests = <<>> THEN {} ELSE {requests[1].messages[1].content})
    \cup {context[i].content : i \in {j \in DOMAIN context : j > 1 /\ context[j].role = "system"}}

\* C22: while handle_message runs nothing is written after the user's row;
\* when it returns, on whichever path, the rows written since are one
\* assistant row, the last of the conversation, whose content is the returned
\* text; no row holds a tool request or a tool result
C22_OneAssistantRowPerReturn ==
    channel = "bot" /\ pc # "idle" =>
        /\ messages[runStart].role = "user" /\ messages[runStart].content = message_text
        /\ pc # "returned" => NewRows = <<>>
        /\ pc = "returned" =>
               /\ Len(NewRows) = 1
               /\ messages[Len(messages)].role = "assistant"
               /\ messages[Len(messages)].content = reply
               /\ reply = responses[Len(responses)].content
               /\ Len(responses) = IF handled = <<>> THEN 1 ELSE 2
        /\ \A i \in DOMAIN messages :
               /\ messages[i].role \in {"user", "assistant"}
               /\ messages[i].content \notin IntermediateTexts

\* a run whose tool was executed and whose second answer asked for a tool
\* again has returned: the one row written is that answer's content
C22_Witness ==
    /\ channel = "bot" /\ pc = "returned"
    /\ handled # <<>> /\ handled[1].executed
    /\ IsToolCallAnswer(responses[2])
    /\ Len(NewRows) = 1 /\ NewRows[1].content = reply
    /\ turns = MaxTurns

\* the cursor a response hands out, read off the body the task API sent
CursorHandedOut(r) ==
    IF r.raised THEN "none"
    ELSE CASE r.body \in {"page_more", "page_more_bad"} -> "cur1"
           [] r.body = "page_more2" -> "cur2"
           [] OTHER -> "none"

\* the exchange ends the paging: the request failed, the body is no JSON
\* document, or it carries no cursor or an empty one
EndsPaging(r) == CursorHandedOut(r) = "none"

\* the first request passes no cursor; every later request passes the
\* non-empty cursor of the response before it; the loop is left exactly
\* after the first response that ends the paging
PagingFollowsCursors ==
    /\ page_count = 0 => page_pc = "fetching" /\ page_sent = "unsent"
    /\ page_count = 1 => page_sent = "None"
    /\ page_count >= 2 => /\ ~EndsPaging(page_prev)
                          /\ page_sent = CursorHandedOut(page_prev)
    /\ page_count >= 1 => (page_pc = "returned" <=> EndsPaging(page_answer))
    /\ page_pc = "fetching" /\ page_count >= 1 => cursor = CursorHandedOut(page_answer)

\* C23: GetTasks.execute without a filter asks for the next page exactly
\* while the last response carried a non-empty next_cursor, passing that
\* cursor, and leaves the loop after the first response without one; it
\* returns if the task API ever answers with such a response or a request
\* fails, however many pages came before
C23_PagingStopsWithTheApi ==
    /\ []PagingFollowsCursors
    /\ <>(page_count >= 1 /\ EndsPaging(page_answer)) => <>(page_pc = "returned")

\* more pages than are counted were asked for, the last with the cursor of
\* the page before, and the loop ended on a page with an empty cursor
C23_Witness ==
    /\ page_count = MaxPages
    /\ page_prev.body = "page_more2" /\ page_sent = "cur2"
    /\ page_answer = Http(200, "page_blank")
    /\ page_pc = "returned"

\* every save() that was called has returned
AllSavesCompleted == \A p \in Savers : savers[p].pc = "idle"

DefaultModes == {i \in 1..Len(agent_modes) : agent_modes[i].is_default}

\* C24: when the saves of two processes interleave, each save being the
\* clearing of the other rows and then the write of its own row, then once
\* all of them have completed at most one AgentMode is the default and at
\* most one AIModel and one SystemPrompt is active per target type
C24_AtMostOneAfterConcurrentSaves ==
    AllSavesCompleted =>
        /\ Cardinality(DefaultModes) <= 1
        /\ \A t \in AIModelTypes : Cardinality(ActiveKeys(ai_models, t)) <= 1
        /\ \A t \in PromptTypes : Cardinality(ActiveKeys(system_prompts, t)) <= 1

====
